---- MODULE Spec2Model ----
(***************************************************************************)
(* A model of realm-web-rs (src/src/lib.rs): a typed client of the MongoDB *)
(* Atlas Data API.  Every action builds a request struct, serializes it to *)
(* JSON, POSTs it with three headers to a URL derived from the Client's    *)
(* configuration and decodes the JSON answer into a typed response.        *)
(*                                                                         *)
(* Representation.                                                         *)
(*   Option<T>      None is <<>>, Some(x) is <<x>>.                        *)
(*   JSON value     a record [t |-> tag, v |-> payload]; an object's       *)
(*                  member list is a sequence of <<key, value>> pairs in   *)
(*                  the order serde emits them.                            *)
(*   field name     a Rust identifier is the sequence of its snake_case    *)
(*                  words (inserted_ids is <<"inserted", "ids">>), so that *)
(*                  serde's rename_all is a computation on it.             *)
(*   header value   the token is a sequence of bytes.                      *)
(***************************************************************************)
EXTENDS Integers, Sequences, FiniteSets, TLC

VARIABLES client, pc, call, request, response, result, sends

vars == <<client, pc, call, request, response, result, sends>>

(* ------------------------------ bounds -------------------------------- *)

\* Longest document sequence handed to insert / aggregate.
MaxDocs == 2
\* Number of calls that may be in flight together on one Client.
MaxCalls == 2

(* ------------------------------ Option -------------------------------- *)

None == <<>>
Some(x) == <<x>>
is_none(o) == o = None
is_some(o) == o # None
unwrap(o) == o[1]
Opt(S) == {None} \cup {Some(x) : x \in S}

SeqsUpTo(S, n) == UNION {[1..k -> S] : k \in 0..n}

RECURSIVE Concat(_)
Concat(ss) == IF ss = <<>> THEN <<>> ELSE Head(ss) \o Concat(Tail(ss))

(* --------------------------- JSON values ------------------------------ *)

JNull == [t |-> "null", v |-> "null"]
JStr(s) == [t |-> "string", v |-> s]
JInt(n) == [t |-> "int", v |-> n]
JBool(b) == [t |-> "bool", v |-> b]
JDoc(d) == [t |-> "doc", v |-> d]
JOid(o) == [t |-> "oid", v |-> o]
JArr(xs) == [t |-> "arr", v |-> xs]
JDocs(ds) == JArr([i \in 1..Len(ds) |-> JDoc(ds[i])])
JOids(os) == JArr([i \in 1..Len(os) |-> JOid(os[i])])

Keys(members) == {members[i][1] : i \in 1..Len(members)}
HasKey(members, k) == k \in Keys(members)
Lookup(members, k) ==
    members[CHOOSE i \in 1..Len(members) : members[i][1] = k][2]

(* ------------------------ serde field renaming ------------------------ *)

\* First letter upper-cased, for the words the structs of lib.rs use.
Capitalize(w) ==
    CASE w = "source" -> "Source"
      [] w = "id" -> "Id"
      [] w = "ids" -> "Ids"
      [] w = "count" -> "Count"
      [] OTHER -> w

RECURSIVE CamelTail(_)
CamelTail(ws) ==
    IF ws = <<>> THEN "" ELSE Capitalize(Head(ws)) \o CamelTail(Tail(ws))

RECURSIVE SnakeTail(_)
SnakeTail(ws) ==
    IF ws = <<>> THEN "" ELSE "_" \o Head(ws) \o SnakeTail(Tail(ws))

\* The Rust identifier itself: the words joined by underscores.
Ident(ws) == Head(ws) \o SnakeTail(Tail(ws))

\* The JSON key of a field under the struct's rename_all attribute.
WireName(rename_all, ws) ==
    IF rename_all = "camelCase"
    THEN Head(ws) \o CamelTail(Tail(ws))
    ELSE Ident(ws)

(* ------------------------- request structs ---------------------------- *)

\* One field of a Serialize struct: its name, its serde attribute
\* ("flatten", "skip_serializing_if" for Option::is_none, or "plain"),
\* whether its type is an Option, and its value.
Fld(name, attr, opt, value) ==
    [name |-> name, attr |-> attr, opt |-> opt, value |-> value]

OptDoc(o) == IF is_none(o) THEN None ELSE Some(JDoc(unwrap(o)))
OptDocs(o) == IF is_none(o) THEN None ELSE Some(JDocs(unwrap(o)))
OptInt(o) == IF is_none(o) THEN None ELSE Some(JInt(unwrap(o)))
OptBool(o) == IF is_none(o) THEN None ELSE Some(JBool(unwrap(o)))

Collection(data_source, database, collection) ==
    [rename_all |-> "camelCase",
     fields |-> << Fld(<<"data", "source">>, "plain", FALSE, JStr(data_source)),
                   Fld(<<"database">>, "plain", FALSE, JStr(database)),
                   Fld(<<"collection">>, "plain", FALSE, JStr(collection)) >>]

FindRequest(collection, filter, projection, sort, limit, skip) ==
    [rename_all |-> "camelCase",
     fields |-> << Fld(<<"collection">>, "flatten", FALSE, collection),
                   Fld(<<"filter">>, "skip_serializing_if", TRUE, OptDoc(filter)),
                   Fld(<<"projection">>, "skip_serializing_if", TRUE, OptDoc(projection)),
                   Fld(<<"sort">>, "skip_serializing_if", TRUE, OptDoc(sort)),
                   Fld(<<"limit">>, "skip_serializing_if", TRUE, OptInt(limit)),
                   Fld(<<"skip">>, "skip_serializing_if", TRUE, OptInt(skip)) >>]

InsertRequest(collection, document, documents) ==
    [rename_all |-> "camelCase",
     fields |-> << Fld(<<"collection">>, "flatten", FALSE, collection),
                   Fld(<<"document">>, "skip_serializing_if", TRUE, OptDoc(document)),
                   Fld(<<"documents">>, "skip_serializing_if", TRUE, OptDocs(documents)) >>]

UpdateRequest(collection, filter, update, upsert) ==
    [rename_all |-> "camelCase",
     fields |-> << Fld(<<"collection">>, "flatten", FALSE, collection),
                   Fld(<<"filter">>, "plain", FALSE, JDoc(filter)),
                   Fld(<<"update">>, "plain", FALSE, JDoc(update)),
                   Fld(<<"upsert">>, "skip_serializing_if", TRUE, OptBool(upsert)) >>]

ReplaceRequest(collection, filter, replacement, upsert) ==
    [rename_all |-> "camelCase",
     fields |-> << Fld(<<"collection">>, "flatten", FALSE, collection),
                   Fld(<<"filter">>, "plain", FALSE, JDoc(filter)),
                   Fld(<<"replacement">>, "plain", FALSE, JDoc(replacement)),
                   Fld(<<"upsert">>, "skip_serializing_if", TRUE, OptBool(upsert)) >>]

DeleteRequest(collection, filter) ==
    [rename_all |-> "camelCase",
     fields |-> << Fld(<<"collection">>, "flatten", FALSE, collection),
                   Fld(<<"filter">>, "plain", FALSE, JDoc(filter)) >>]

AggregationRequest(collection, pipeline) ==
    [rename_all |-> "camelCase",
     fields |-> << Fld(<<"collection">>, "flatten", FALSE, collection),
                   Fld(<<"pipeline">>, "plain", FALSE, JDocs(pipeline)) >>]

(* --------------------------- serialization ---------------------------- *)

\* The one document value of the model that serde_json cannot write.
Unserializable == "dUnser"

RECURSIVE JsonWritable(_)
JsonWritable(j) ==
    CASE j.t = "doc" -> j.v # Unserializable
      [] j.t = "arr" -> \A i \in 1..Len(j.v) : JsonWritable(j.v[i])
      [] OTHER -> TRUE

\* skip_serializing_if = "Option::is_none": the field is left out.
NeverSkipped(f) == FALSE
Skipped(f) == f.attr = "skip_serializing_if" /\ is_none(f.value)

\* The members a struct contributes to the JSON object: a flattened field
\* contributes the members of its own struct, any other field one member
\* unless it is skipped; an Option that is written is null or its content.
RECURSIVE SerializeMembersNested(_)
SerializeMembersNested(s) ==
    Concat([i \in 1..Len(s.fields) |->
        LET f == s.fields[i] IN
        IF f.attr = "flatten"
        THEN << << WireName(s.rename_all, f.name),
                   [t |-> "obj", v |-> SerializeMembersNested(f.value)] >> >>
        ELSE IF Skipped(f) THEN <<>>
        ELSE << << WireName(s.rename_all, f.name),
                   IF f.opt
                   THEN IF is_none(f.value) THEN JNull ELSE unwrap(f.value)
                   ELSE f.value >> >>])
RECURSIVE SerializeMembers(_)
SerializeMembers(s) ==
    Concat([i \in 1..Len(s.fields) |->
        LET f == s.fields[i] IN
        IF f.attr = "flatten" THEN SerializeMembers(f.value)
        ELSE IF Skipped(f) THEN <<>>
        ELSE << << WireName(s.rename_all, f.name),
                   IF f.opt
                   THEN IF is_none(f.value) THEN JNull ELSE unwrap(f.value)
                   ELSE f.value >> >>])

\* serde_json::to_string(&req): Ok(body) or Err.
to_string(req) ==
    LET members == SerializeMembers(req) IN
    IF \A i \in 1..Len(members) : JsonWritable(members[i][2])
    THEN [ok |-> TRUE, val |-> members]
    ELSE [ok |-> FALSE, val |-> "serde_json::Error"]

(* -------------------------- response structs -------------------------- *)

RFld(name, opt, ty) == [name |-> name, opt |-> opt, ty |-> ty]

FindResponse ==
    [rename_all |-> "none",
     fields |-> << RFld(<<"document">>, TRUE, "Document"),
                   RFld(<<"documents">>, TRUE, "Vec<Document>") >>]

InsertResponse ==
    [rename_all |-> "none",
     fields |-> << RFld(<<"inserted", "id">>, TRUE, "ObjectId"),
                   RFld(<<"inserted", "ids">>, TRUE, "Vec<ObjectId>") >>]

UpdateResponse ==
    [rename_all |-> "camelCase",
     fields |-> << RFld(<<"matched", "count">>, FALSE, "i32"),
                   RFld(<<"modified", "count">>, FALSE, "i32"),
                   RFld(<<"upserted", "id">>, TRUE, "ObjectId") >>]

ReplaceResponse ==
    [rename_all |-> "camelCase",
     fields |-> << RFld(<<"matched", "count">>, FALSE, "i32"),
                   RFld(<<"modified", "count">>, FALSE, "i32"),
                   RFld(<<"upserted", "id">>, TRUE, "ObjectId") >>]

DeleteResponse ==
    [rename_all |-> "camelCase",
     fields |-> << RFld(<<"deleted", "count">>, FALSE, "i32") >>]

AggregationResponse ==
    [rename_all |-> "camelCase",
     fields |-> << RFld(<<"documents">>, FALSE, "Vec<Document>") >>]

(* -------------------------- deserialization --------------------------- *)

\* Whether JSON value j decodes as Rust type ty.
TypeOk(ty, j) ==
    CASE ty = "i32" -> j.t = "int"
      [] ty = "ObjectId" -> j.t = "oid"
      [] ty = "Document" -> j.t = "doc"
      [] ty = "Vec<Document>" ->
            j.t = "arr" /\ \A i \in 1..Len(j.v) : j.v[i].t = "doc"
      [] ty = "Vec<ObjectId>" ->
            j.t = "arr" /\ \A i \in 1..Len(j.v) : j.v[i].t = "oid"
      [] OTHER -> FALSE

\* The Rust value a JSON value decodes to.
Payload(j) ==
    IF j.t = "arr" THEN [i \in 1..Len(j.v) |-> j.v[i].v] ELSE j.v

\* A field with no usable member in the body: an Option field takes None,
\* any other field fails the decode ("missing field").
MissingAlwaysOk(f) == TRUE
MissingOk(f) == f.opt

FieldDecodes(rename_all, f, members) ==
    LET k == WireName(rename_all, f.name) IN
    IF HasKey(members, k)
    THEN LET j == Lookup(members, k) IN
         IF j.t = "null" THEN MissingOk(f) ELSE TypeOk(f.ty, j)
    ELSE MissingOk(f)

FieldValue(rename_all, f, members) ==
    LET k == WireName(rename_all, f.name) IN
    IF HasKey(members, k) /\ Lookup(members, k).t # "null"
    THEN IF f.opt THEN Some(Payload(Lookup(members, k)))
                  ELSE Payload(Lookup(members, k))
    ELSE IF f.opt THEN None ELSE "default"

\* res.json::<T>(): the body read and decoded as struct T.  Members with
\* other keys are ignored.  The decoded struct is a function from the
\* Rust field identifier to the field's value.
Deserialize(T, body) ==
    IF body.readable /\ body.is_object
       /\ \A i \in 1..Len(T.fields) :
             FieldDecodes(T.rename_all, T.fields[i], body.members)
    THEN [ok |-> TRUE,
          val |-> [n \in {Ident(T.fields[i].name) : i \in 1..Len(T.fields)} |->
                     LET f == T.fields[CHOOSE i \in 1..Len(T.fields) :
                                          Ident(T.fields[i].name) = n]
                     IN FieldValue(T.rename_all, f, body.members)]]
    ELSE [ok |-> FALSE, val |-> "reqwest::Error"]

(* ------------------------------ Client -------------------------------- *)

\* ApiVersion::v1 => "v1"
api_version_str(api_version) ==
    CASE api_version = "v1" -> "v1"

\* Client::get_url
get_url_no_dot(self) ==
    "https://"
    \o (IF is_some(self.deployment_region)
        THEN unwrap(self.deployment_region) ELSE "")
    \o "data.mongodb-api.com/app/" \o self.application_id
    \o "/endpoint/data/" \o api_version_str(self.api_version)
get_url(self) ==
    "https://"
    \o (IF is_some(self.deployment_region)
        THEN unwrap(self.deployment_region) \o "." ELSE "")
    \o "data.mongodb-api.com/app/" \o self.application_id
    \o "/endpoint/data/" \o api_version_str(self.api_version)

\* HeaderValue::from_str accepts a string all of whose bytes are
\* b >= 32 && b != 127 || b == b'\t'.
is_valid_byte(b) == (b >= 32 /\ b # 127) \/ b = 9
from_str_ok(token) == \A i \in 1..Len(token) : is_valid_byte(token[i])

HeaderValue(how, v) == [how |-> how, v |-> v]

\* Client::get_auth_headers: the HeaderMap as the sequence of appended
\* (name, value) entries.  Defined when from_str_ok(self.api_token); the
\* unwrap() panics otherwise.
get_auth_headers_no_accept(self) ==
    << <<"apikey", HeaderValue("from_str", self.api_token)>>,
       <<"content-type", HeaderValue("from_static", "application/json")>> >>
get_auth_headers(self) ==
    << <<"apikey", HeaderValue("from_str", self.api_token)>>,
       <<"content-type", HeaderValue("from_static", "application/json")>>,
       <<"accept", HeaderValue("from_static", "application/json")>> >>

(* --------------------------- Error / Result --------------------------- *)

Error(status_code, error) == [status_code |-> status_code, error |-> error]
Ok(v) == [ok |-> TRUE, val |-> v]
Err(e) == [ok |-> FALSE, val |-> e]

\* StatusCode::is_success: 200..=299
is_success(status) == status >= 200 /\ status =< 299

(* ------------------------------ state --------------------------------- *)

CallIds == 1..MaxCalls

NoCall == [action |-> "none", path |-> "", req |-> None, T |-> None]

Init ==
    /\ client \in [application_id : {"app-0", "data-abcde"},
                   api_token : {<<107, 101, 121>>, <<107, 9, 121>>, <<107, 10, 121>>},
                   api_version : {"v1"},
                   deployment_region : Opt({"eu-west-1.aws"})]
    /\ pc = [c \in CallIds |-> "idle"]
    /\ call = [c \in CallIds |-> NoCall]
    /\ request = [c \in CallIds |-> None]
    /\ response = [c \in CallIds |-> None]
    /\ result = [c \in CallIds |-> None]
    /\ sends = [c \in CallIds |-> 0]

(* --------------------- the body shared by all actions ----------------- *)

\* From entry up to the first await: the request struct is built, the
\* RequestBuilder gets the URL (post), the headers (headers; the token's
\* unwrap() may panic here) and the body (body; a serialization error
\* returns through `?`), and send() issues the request.
PostSerializesFirst(c, action, path, req, T) ==
    /\ call' = [call EXCEPT ![c] =
                  [action |-> action, path |-> path, req |-> Some(req), T |-> Some(T)]]
    /\ IF ~to_string(req).ok
       THEN /\ pc' = [pc EXCEPT ![c] = "returned"]
            /\ result' = [result EXCEPT ![c] =
                  Some(Err(Error(None, "Format error: " \o to_string(req).val)))]
            /\ UNCHANGED <<request, sends>>
       ELSE IF ~from_str_ok(client.api_token)
       THEN /\ pc' = [pc EXCEPT ![c] = "panicked"]
            /\ UNCHANGED <<request, result, sends>>
       ELSE /\ pc' = [pc EXCEPT ![c] = "awaiting_send"]
            /\ request' = [request EXCEPT ![c] =
                  Some([method |-> "POST",
                        url |-> get_url(client) \o path,
                        headers |-> get_auth_headers(client),
                        body |-> to_string(req).val])]
            /\ sends' = [sends EXCEPT ![c] = @ + 1]
            /\ UNCHANGED result
    /\ UNCHANGED <<client, response>>
Post(c, action, path, req, T) ==
    /\ call' = [call EXCEPT ![c] =
                  [action |-> action, path |-> path, req |-> Some(req), T |-> Some(T)]]
    /\ IF ~from_str_ok(client.api_token)
       THEN /\ pc' = [pc EXCEPT ![c] = "panicked"]
            /\ UNCHANGED <<request, result, sends>>
       ELSE IF ~to_string(req).ok
       THEN /\ pc' = [pc EXCEPT ![c] = "returned"]
            /\ result' = [result EXCEPT ![c] =
                  Some(Err(Error(None, "Format error: " \o to_string(req).val)))]
            /\ UNCHANGED <<request, sends>>
       ELSE /\ pc' = [pc EXCEPT ![c] = "awaiting_send"]
            /\ request' = [request EXCEPT ![c] =
                  Some([method |-> "POST",
                        url |-> get_url(client) \o path,
                        headers |-> get_auth_headers(client),
                        body |-> to_string(req).val])]
            /\ sends' = [sends EXCEPT ![c] = @ + 1]
            /\ UNCHANGED result
    /\ UNCHANGED <<client, response>>

\* send().await resolves to Err: map_err and `?` return the error.
SendFailedRetries(c) ==
    /\ pc[c] = "awaiting_send"
    /\ sends[c] < 3
    /\ sends' = [sends EXCEPT ![c] = @ + 1]
    /\ UNCHANGED <<client, pc, call, request, response, result>>
SendFailed(c) ==
    /\ pc[c] = "awaiting_send"
    /\ pc' = [pc EXCEPT ![c] = "returned"]
    /\ result' = [result EXCEPT ![c] =
          Some(Err(Error(None, "Failed to send request: " \o "reqwest::Error")))]
    /\ UNCHANGED <<client, call, request, response, sends>>

\* send().await resolves to Ok(res): the server answered.
SendResolved(c, status, body) ==
    /\ pc[c] = "awaiting_send"
    /\ pc' = [pc EXCEPT ![c] = "awaiting_body"]
    /\ response' = [response EXCEPT ![c] = Some([status |-> status, body |-> body])]
    /\ UNCHANGED <<client, call, request, result, sends>>

\* res.text().await.unwrap_or_default()
text_or_default(body) == IF body.readable THEN body.text ELSE ""

\* The value the function returns once the body has been awaited.
OutcomeIgnoringStatus(T, res) ==
    LET d == Deserialize(T, res.body) IN
    IF d.ok THEN Ok(d.val)
    ELSE Err(Error(None, "Failed to deserialize response: " \o d.val))
OutcomeStatusOnDecodeError(T, res) ==
    IF ~is_success(res.status)
    THEN Err(Error(Some(res.status), "; content: " \o text_or_default(res.body)))
    ELSE LET d == Deserialize(T, res.body) IN
         IF d.ok THEN Ok(d.val)
         ELSE Err(Error(Some(res.status), "Failed to deserialize response: " \o d.val))
Outcome(T, res) ==
    IF ~is_success(res.status)
    THEN Err(Error(Some(res.status), "; content: " \o text_or_default(res.body)))
    ELSE LET d == Deserialize(T, res.body) IN
         IF d.ok THEN Ok(d.val)
         ELSE Err(Error(None, "Failed to deserialize response: " \o d.val))

\* text().await or json::<T>().await resolves and the function returns.
BodyResolvedSharedBuffer(c) ==
    /\ pc[c] = "awaiting_body"
    /\ pc' = [pc EXCEPT ![c] = "returned"]
    /\ \E d \in CallIds :
          /\ is_some(response[d])
          /\ result' = [result EXCEPT ![c] =
                Some(Outcome(unwrap(call[c].T), unwrap(response[d])))]
    /\ UNCHANGED <<client, call, request, response, sends>>
BodyResolved(c) ==
    /\ pc[c] = "awaiting_body"
    /\ pc' = [pc EXCEPT ![c] = "returned"]
    /\ result' = [result EXCEPT ![c] =
          Some(Outcome(unwrap(call[c].T), unwrap(response[c])))]
    /\ UNCHANGED <<client, call, request, response, sends>>

(* ---------------------------- the actions ----------------------------- *)

find_one(c, collection, filter, projection) ==
    /\ pc[c] = "idle"
    /\ Post(c, "find_one", "/action/findOne",
            FindRequest(collection, filter, projection, None, None, None),
            FindResponse)

find(c, collection, filter, projection, sort, limit, skip) ==
    /\ pc[c] = "idle"
    /\ Post(c, "find", "/action/find",
            FindRequest(collection, filter, projection, sort, limit, skip),
            FindResponse)

insert_one(c, collection, document) ==
    /\ pc[c] = "idle"
    /\ Post(c, "insert_one", "/action/insertOne",
            InsertRequest(collection, Some(document), None),
            InsertResponse)

insert(c, collection, documents) ==
    /\ pc[c] = "idle"
    /\ Post(c, "insert", "/action/insertMany",
            InsertRequest(collection, None, Some(documents)),
            InsertResponse)

update_one(c, collection, filter, update_doc, upsert) ==
    /\ pc[c] = "idle"
    /\ Post(c, "update_one", "/action/updateOne",
            UpdateRequest(collection, filter, update_doc, upsert),
            UpdateResponse)

update(c, collection, filter, update_doc, upsert) ==
    /\ pc[c] = "idle"
    /\ Post(c, "update", "/action/updateMany",
            UpdateRequest(collection, filter, update_doc, upsert),
            UpdateResponse)

replace_one(c, collection, filter, replacement, upsert) ==
    /\ pc[c] = "idle"
    /\ Post(c, "replace_one", "/action/replaceOne",
            ReplaceRequest(collection, filter, replacement, upsert),
            ReplaceResponse)

delete_one(c, collection, filter) ==
    /\ pc[c] = "idle"
    /\ Post(c, "delete_one", "/action/deleteOne",
            DeleteRequest(collection, filter),
            DeleteResponse)

delete_to_delete_one_path(c, collection, filter) ==
    /\ pc[c] = "idle"
    /\ Post(c, "delete", "/action/deleteOne",
            DeleteRequest(collection, filter),
            DeleteResponse)
delete(c, collection, filter) ==
    /\ pc[c] = "idle"
    /\ Post(c, "delete", "/action/deleteMany",
            DeleteRequest(collection, filter),
            DeleteResponse)

aggregate(c, collection, pipeline) ==
    /\ pc[c] = "idle"
    /\ Post(c, "aggregate", "/action/aggregate",
            AggregationRequest(collection, pipeline),
            AggregationResponse)

(* ------------------------------ inputs -------------------------------- *)

Collections ==
    { Collection("Cluster0", "db", "users"),
      Collection("mongodb-atlas", "shop", "orders") }

GoodDocuments == {"d1", "d2"}
Documents == GoodDocuments \cup {Unserializable}
ObjectIds == {"oid1", "oid2"}

JsonBody(text, members) ==
    [readable |-> TRUE, is_object |-> TRUE, members |-> members, text |-> text]
\* A body that is readable text but no JSON object.
TextBody(text) ==
    [readable |-> TRUE, is_object |-> FALSE, members |-> <<>>, text |-> text]
\* A body whose read fails (the connection breaks while it is read).
BrokenBody ==
    [readable |-> FALSE, is_object |-> FALSE, members |-> <<>>, text |-> ""]

Statuses == {199, 200, 299, 300, 404}

IdLists == SeqsUpTo(ObjectIds, MaxDocs)

Bodies ==
    { JsonBody("{}", <<>>),
      JsonBody("{document}", << <<"document", JDoc("d1")>> >>),
      JsonBody("{document:null}", << <<"document", JNull>> >>),
      JsonBody("{documents}", << <<"documents", JDocs(<<"d1", "d2">>)>> >>),
      JsonBody("{documents:7}", << <<"documents", JInt(7)>> >>),
      JsonBody("{insertedId}", << <<"insertedId", JOid("oid1")>> >>),
      JsonBody("{matchedCount,modifiedCount}",
               << <<"matchedCount", JInt(1)>>, <<"modifiedCount", JInt(1)>> >>),
      JsonBody("{matchedCount,modifiedCount,upsertedId}",
               << <<"matchedCount", JInt(0)>>, <<"modifiedCount", JInt(0)>>,
                  <<"upsertedId", JOid("oid2")>> >>),
      JsonBody("{matchedCount}", << <<"matchedCount", JInt(1)>> >>),
      JsonBody("{modifiedCount}", << <<"modifiedCount", JInt(1)>> >>),
      JsonBody("{deletedCount:0}", << <<"deletedCount", JInt(0)>> >>),
      JsonBody("{deletedCount:2}", << <<"deletedCount", JInt(2)>> >>),
      JsonBody("{deletedCount:null}", << <<"deletedCount", JNull>> >>),
      TextBody("<html>"),
      BrokenBody }
    \cup { JsonBody("{insertedIds}", << <<"insertedIds", JOids(ids)>> >>) : ids \in IdLists }
    \cup { JsonBody("{inserted_ids}", << <<"inserted_ids", JOids(ids)>> >>) : ids \in IdLists }

(* --------------------------- specifications --------------------------- *)

\* One call on the Client, over the full input sets.
Next ==
    \E c \in {1} :
       \/ \E col \in Collections, f \in Opt({"d1", Unserializable}), p \in Opt({"d1"}) :
             find_one(c, col, f, p)
       \/ \E col \in Collections, f \in Opt({"d1"}), p \in Opt({"d1"}),
             s \in Opt({"d2"}), l \in Opt({10}), k \in Opt({0}) :
             find(c, col, f, p, s, l, k)
       \/ \E col \in Collections, d \in Documents : insert_one(c, col, d)
       \/ \E col \in Collections, ds \in SeqsUpTo(Documents, MaxDocs) : insert(c, col, ds)
       \/ \E col \in Collections, f \in {"d1"}, u \in {"d2", Unserializable},
             up \in Opt(BOOLEAN) : update_one(c, col, f, u, up)
       \/ \E col \in Collections, f \in {"d1"}, u \in {"d2", Unserializable},
             up \in Opt(BOOLEAN) : update(c, col, f, u, up)
       \/ \E col \in Collections, f \in {"d1"}, r \in {"d2", Unserializable},
             up \in Opt(BOOLEAN) : replace_one(c, col, f, r, up)
       \/ \E col \in Collections, f \in Documents : delete_one(c, col, f)
       \/ \E col \in Collections, f \in Documents : delete(c, col, f)
       \/ \E col \in Collections, ps \in SeqsUpTo(Documents, MaxDocs) : aggregate(c, col, ps)
       \/ SendFailed(c)
       \/ \E st \in Statuses, b \in Bodies : SendResolved(c, st, b)
       \/ BodyResolved(c)

Spec == Init /\ [][Next]_vars

\* One call on the Client, over every configuration of Init (valid and
\* invalid tokens), writable and unwritable documents, and answers of each
\* kind: decodable, not decodable, rejected, unreadable.
LiveResponses ==
    { <<200, JsonBody("{}", <<>>)>>,
      <<200, JsonBody("{deletedCount:0}", << <<"deletedCount", JInt(0)>> >>)>>,
      <<299, TextBody("<html>")>>,
      <<404, JsonBody("{}", <<>>)>>,
      <<500, BrokenBody>> }

\* The futures a call awaits are resolved by the HTTP client: send() ends
\* with a response or an error, and the read of the body ends.
Resolve ==
    \E c \in {1} :
       \/ SendFailed(c)
       \/ \E r \in LiveResponses : SendResolved(c, r[1], r[2])
       \/ BodyResolved(c)

NextLive ==
    \/ \E c \in {1}, col \in Collections :
          \/ \E f \in Opt({"d1", Unserializable}) : find_one(c, col, f, None)
          \/ \E f \in Opt({"d1", Unserializable}) :
                find(c, col, f, None, None, Some(10), None)
          \/ \E d \in Documents : insert_one(c, col, d)
          \/ \E ds \in SeqsUpTo(Documents, MaxDocs) : insert(c, col, ds)
          \/ \E u \in {"d2", Unserializable} : update_one(c, col, "d1", u, Some(TRUE))
          \/ \E u \in {"d2", Unserializable} : update(c, col, "d1", u, None)
          \/ \E r \in {"d2", Unserializable} : replace_one(c, col, "d1", r, None)
          \/ \E f \in Documents : delete_one(c, col, f)
          \/ \E f \in Documents : delete(c, col, f)
          \/ \E ps \in SeqsUpTo(Documents, MaxDocs) : aggregate(c, col, ps)
    \/ Resolve

\* Every awaited future is resolved in the end.
SpecLive == Init /\ [][NextLive]_vars /\ WF_vars(Resolve)

\* Up to MaxCalls calls in flight on one Client, interleaved in every
\* order, over reduced input sets.
ConcCollections == {Collection("Cluster0", "db", "users")}
ConcResponses ==
    { <<200, JsonBody("{}", <<>>)>>,
      <<200, JsonBody("{deletedCount:0}", << <<"deletedCount", JInt(0)>> >>)>>,
      <<404, JsonBody("{}", <<>>)>> }

InitConc ==
    /\ Init
    /\ client.application_id = "app-0"
    /\ client.api_token = <<107, 101, 121>>
    /\ is_some(client.deployment_region)

NextConc ==
    \E c \in CallIds :
       \/ \E col \in ConcCollections : find_one(c, col, Some("d1"), None)
       \/ \E col \in ConcCollections : find(c, col, None, None, None, Some(10), None)
       \/ \E col \in ConcCollections : insert_one(c, col, "d1")
       \/ \E col \in ConcCollections : insert(c, col, <<"d1", "d2">>)
       \/ \E col \in ConcCollections : update_one(c, col, "d1", "d2", Some(TRUE))
       \/ \E col \in ConcCollections : update(c, col, "d1", "d2", None)
       \/ \E col \in ConcCollections : replace_one(c, col, "d1", "d2", None)
       \/ \E col \in ConcCollections : delete_one(c, col, Unserializable)
       \/ \E col \in ConcCollections : delete(c, col, "d1")
       \/ \E col \in ConcCollections : aggregate(c, col, <<"d1">>)
       \/ SendFailed(c)
       \/ \E r \in ConcResponses : SendResolved(c, r[1], r[2])
       \/ BodyResolved(c)

SpecConc == InitConc /\ [][NextConc]_vars

(* ------------------------ helpers of the claims ----------------------- *)

Returned(c) == pc[c] = "returned"
Issued(c) == is_some(request[c])
Answered(c) == is_some(response[c])
Req(c) == unwrap(request[c])
Resp(c) == unwrap(response[c])
Res(c) == unwrap(result[c])
SuccessStatus(st) == st \in 200..299
\* The request-struct field of call c whose Rust name is the one word k.
ArgField(c, k) ==
    LET fs == unwrap(call[c].req).fields
    IN fs[CHOOSE i \in 1..Len(fs) : fs[i].name = <<k>>]

(* ------------------------------- C1 ----------------------------------- *)

\* C1: whatever the action and whatever the body (decodable as the typed
\* response, plain text or unreadable), a call that was answered with a
\* status outside 200-299 returns an Err whose status_code is exactly that
\* status; it never returns a decoded response.
C1_NonSuccessStatusIsReturned ==
    \A c \in CallIds :
        (Returned(c) /\ Answered(c) /\ ~SuccessStatus(Resp(c).status))
        => /\ ~Res(c).ok
           /\ Res(c).val.status_code = Some(Resp(c).status)

\* A delete answered 404 with a body that would decode as a DeleteResponse.
C1_Witness ==
    \E c \in CallIds :
        /\ Returned(c) /\ Answered(c)
        /\ call[c].action = "delete"
        /\ Resp(c).status = 404
        /\ Resp(c).body.members = << <<"deletedCount", JInt(0)>> >>
        /\ Res(c) = Err(Error(Some(404), "; content: {deletedCount:0}"))

(* ------------------------------- C2 ----------------------------------- *)

\* C2: an insert of n >= 1 documents answered with a success status and a body
\* that lists n ids under the key insertedIds returns Ok with inserted_ids
\* present and equal to that list, in that order.
C2_InsertManyReturnsIdsInOrder ==
    \A c \in CallIds :
        (/\ Returned(c) /\ Answered(c)
         /\ call[c].action = "insert"
         /\ SuccessStatus(Resp(c).status)
         /\ Resp(c).body.is_object
         /\ Keys(Resp(c).body.members) = {"insertedIds"}
         /\ Lookup(Resp(c).body.members, "insertedIds").t = "arr"
         /\ Len(Lookup(Req(c).body, "documents").v) >= 1
         /\ Len(Lookup(Resp(c).body.members, "insertedIds").v)
              = Len(Lookup(Req(c).body, "documents").v))
        => /\ Res(c).ok
           /\ Res(c).val.inserted_ids
                = Some(Payload(Lookup(Resp(c).body.members, "insertedIds")))

(* ------------------------------- C3 ----------------------------------- *)

\* The optional request fields of each action.
OptionalKeys(action) ==
    CASE action \in {"find_one", "find"} ->
            {"filter", "projection", "sort", "limit", "skip"}
      [] action \in {"insert_one", "insert"} -> {"document", "documents"}
      [] action \in {"update_one", "update", "replace_one"} -> {"upsert"}
      [] OTHER -> {}

\* C3: in every request body, an optional field whose value is absent has
\* no key at all (and nothing is written as null), and an optional field
\* whose value is present has its key with that value.
C3_AbsentOptionalFieldsAreOmitted ==
    \A c \in CallIds :
        Issued(c)
        => /\ \A k \in OptionalKeys(call[c].action) :
                 IF is_none(ArgField(c, k).value)
                 THEN ~HasKey(Req(c).body, k)
                 ELSE /\ HasKey(Req(c).body, k)
                      /\ Lookup(Req(c).body, k) = unwrap(ArgField(c, k).value)
           /\ \A i \in 1..Len(Req(c).body) : Req(c).body[i][2].t # "null"

\* A find sent with limit present and every other optional field absent.
C3_Witness ==
    \E c \in CallIds :
        /\ Issued(c)
        /\ call[c].action = "find"
        /\ is_none(ArgField(c, "filter").value)
        /\ ArgField(c, "limit").value = Some(JInt(10))
        /\ Keys(Req(c).body) = {"dataSource", "database", "collection", "limit"}

(* ------------------------------- C4 ----------------------------------- *)

\* C4: a returned call whose request could not be serialized, whose send
\* failed, or whose success-status body did not decode returns an Err with
\* no status code; one answered with a non-success status returns an Err
\* with a status code; so an Err carries a status code exactly when a
\* response with a non-success status was received.
C4_StatusCodeOnlyOnRemoteRejection ==
    \A c \in CallIds :
        Returned(c)
        => /\ ~Issued(c) => (~Res(c).ok /\ is_none(Res(c).val.status_code))
           /\ (Issued(c) /\ ~Answered(c))
                 => (~Res(c).ok /\ is_none(Res(c).val.status_code))
           /\ (Answered(c) /\ SuccessStatus(Resp(c).status)
                           /\ ~Resp(c).body.is_object)
                 => (~Res(c).ok /\ is_none(Res(c).val.status_code))
           /\ (Answered(c) /\ ~SuccessStatus(Resp(c).status))
                 => (~Res(c).ok /\ is_some(Res(c).val.status_code))
           /\ ~Res(c).ok
                 => (is_some(Res(c).val.status_code)
                       <=> (Answered(c) /\ ~SuccessStatus(Resp(c).status)))

\* A call answered 200 with a body that is no JSON object: a decode error.
C4_Witness ==
    \E c \in CallIds :
        /\ Returned(c) /\ Answered(c)
        /\ Resp(c).status = 200
        /\ Resp(c).body = TextBody("<html>")
        /\ ~Res(c).ok
        /\ Res(c).val.status_code = None

(* ------------------------------- C5 ----------------------------------- *)

IsInt(members, k) == HasKey(members, k) /\ Lookup(members, k).t = "int"

\* C5: for a call answered with a success status and a JSON object m:
\* find_one/find succeed with document (documents) None when m has no
\* document (documents) key and the other key is absent or well typed;
\* update_one/update/replace_one fail to decode (Err, no status code) when
\* m lacks matchedCount or modifiedCount and succeed with upserted_id None
\* when both counts are there and upsertedId is not; delete_one/delete
\* fail to decode when m lacks deletedCount and succeed with the count
\* when it is there (0 included); aggregate fails to decode when m lacks
\* documents.
C5_MissingOptionalIsNoneMissingRequiredFails ==
    \A c \in CallIds :
        (Returned(c) /\ Answered(c) /\ SuccessStatus(Resp(c).status)
                     /\ Resp(c).body.is_object)
        => LET m == Resp(c).body.members
               a == call[c].action
               DecodeError == ~Res(c).ok /\ is_none(Res(c).val.status_code)
           IN /\ (a \in {"find_one", "find"} /\ ~HasKey(m, "document")
                                             /\ ~HasKey(m, "documents"))
                    => (Res(c).ok /\ Res(c).val.document = None
                                  /\ Res(c).val.documents = None)
              /\ (a \in {"find_one", "find"} /\ Keys(m) = {"document"}
                                             /\ Lookup(m, "document").t = "doc")
                    => (Res(c).ok
                        /\ Res(c).val.document = Some(Lookup(m, "document").v)
                        /\ Res(c).val.documents = None)
              /\ (a \in {"find_one", "find"} /\ Keys(m) = {"documents"}
                                             /\ Lookup(m, "documents").t = "arr")
                    => (Res(c).ok
                        /\ Res(c).val.document = None
                        /\ is_some(Res(c).val.documents))
              /\ (a \in {"update_one", "update", "replace_one"}
                  /\ (~HasKey(m, "matchedCount") \/ ~HasKey(m, "modifiedCount")))
                    => DecodeError
              /\ (a \in {"update_one", "update", "replace_one"}
                  /\ IsInt(m, "matchedCount") /\ IsInt(m, "modifiedCount")
                  /\ ~HasKey(m, "upsertedId"))
                    => (Res(c).ok /\ Res(c).val.upserted_id = None)
              /\ (a \in {"delete_one", "delete"} /\ ~HasKey(m, "deletedCount"))
                    => DecodeError
              /\ (a \in {"delete_one", "delete"} /\ IsInt(m, "deletedCount"))
                    => (Res(c).ok
                        /\ Res(c).val.deleted_count = Lookup(m, "deletedCount").v)
              /\ (a = "aggregate" /\ ~HasKey(m, "documents")) => DecodeError

\* An update_one answered 200 with matchedCount but no modifiedCount.
C5_Witness ==
    \E c \in CallIds :
        /\ Returned(c) /\ Answered(c)
        /\ call[c].action = "update_one"
        /\ Resp(c).status = 200
        /\ Keys(Resp(c).body.members) = {"matchedCount"}
        /\ ~Res(c).ok

(* ------------------------------- C6 ----------------------------------- *)

\* C6: a call never issues more than one request: none before it starts,
\* none when the request could not be serialized, exactly one once the
\* request was serialized, and still exactly one after the call returned
\* with a transport error, a non-success status or a decode error.
C6_AtMostOneRequestPerCall ==
    \A c \in CallIds :
        /\ sends[c] <= 1
        /\ pc[c] = "idle" => sends[c] = 0
        /\ (Returned(c) /\ ~to_string(unwrap(call[c].req)).ok) => sends[c] = 0
        /\ (pc[c] \in {"awaiting_send", "awaiting_body", "returned"}
            /\ to_string(unwrap(call[c].req)).ok) => sends[c] = 1
        /\ (Returned(c) /\ ~Res(c).ok /\ Issued(c)) => sends[c] = 1

\* A call that returned a transport error after its one request.
C6_Witness ==
    \E c \in CallIds :
        /\ Returned(c) /\ Issued(c) /\ ~Answered(c)
        /\ ~Res(c).ok
        /\ sends[c] = 1

(* ------------------------------- C7 ----------------------------------- *)

ActionPath(action) ==
    CASE action = "find_one" -> "/action/findOne"
      [] action = "find" -> "/action/find"
      [] action = "insert_one" -> "/action/insertOne"
      [] action = "insert" -> "/action/insertMany"
      [] action = "update_one" -> "/action/updateOne"
      [] action = "update" -> "/action/updateMany"
      [] action = "replace_one" -> "/action/replaceOne"
      [] action = "delete_one" -> "/action/deleteOne"
      [] action = "delete" -> "/action/deleteMany"
      [] action = "aggregate" -> "/action/aggregate"

\* C7: the request of every action is a POST to the base URL followed by
\* the action's own path.
C7_EachActionPostsToItsPath ==
    \A c \in CallIds :
        Issued(c)
        => /\ Req(c).method = "POST"
           /\ Req(c).url = get_url(client) \o ActionPath(call[c].action)

\* A delete sent to .../action/deleteMany.
C7_Witness ==
    \E c \in CallIds :
        /\ Issued(c)
        /\ call[c].action = "delete"
        /\ Req(c).url
             = "https://data.mongodb-api.com/app/app-0/endpoint/data/v1/action/deleteMany"

(* ------------------------------- C8 ----------------------------------- *)

ExpectedHost ==
    IF client.deployment_region = None
    THEN "data.mongodb-api.com"
    ELSE unwrap(client.deployment_region) \o "." \o "data.mongodb-api.com"

\* C8: the URL of every request is https://, the host (data.mongodb-api.com
\* alone with no region, the region and one dot before it otherwise),
\* /app/, the application id unchanged, /endpoint/data/v1, and the path of
\* the action.
C8_BaseUrlFormat ==
    \A c \in CallIds :
        Issued(c)
        => Req(c).url = "https://" \o ExpectedHost \o "/app/"
                        \o client.application_id \o "/endpoint/data/v1"
                        \o call[c].path

\* A find sent by a Client with a region.
C8_Witness ==
    \E c \in CallIds :
        /\ Issued(c)
        /\ client.deployment_region = Some("eu-west-1.aws")
        /\ Req(c).url
             = "https://eu-west-1.aws.data.mongodb-api.com/app/data-abcde/endpoint/data/v1/action/find"

(* ------------------------------- C9 ----------------------------------- *)

CallState(c) == <<pc[c], call[c], request[c], response[c], result[c], sends[c]>>

\* Whether a success-status JSON object decodes for the action.
Decodes(action, m) ==
    CASE action \in {"find_one", "find", "insert_one", "insert"} -> TRUE
      [] action \in {"update_one", "update", "replace_one"} ->
            IsInt(m, "matchedCount") /\ IsInt(m, "modifiedCount")
      [] action \in {"delete_one", "delete"} -> IsInt(m, "deletedCount")
      [] action = "aggregate" -> HasKey(m, "documents")

\* A step leaves the configuration alone and touches one call at most.
C9_StepIsLocal ==
    /\ client' = client
    /\ \E c \in CallIds : \A d \in CallIds \ {c} : CallState(d)' = CallState(d)

\* What a call sent and what it returned follow from its own action and
\* arguments, the configuration and its own response.
C9_OwnRequestOwnResult ==
    \A c \in CallIds :
        /\ Issued(c)
             => /\ Req(c).url = "https://" \o ExpectedHost \o "/app/"
                       \o client.application_id \o "/endpoint/data/v1"
                       \o ActionPath(call[c].action)
                /\ Req(c).headers[1][2].v = client.api_token
                /\ Req(c).body = SerializeMembers(unwrap(call[c].req))
        /\ \A d \in CallIds :
              (Issued(c) /\ Issued(d) /\ call[c] = call[d])
              => request[c] = request[d]
        /\ (Returned(c) /\ Answered(c))
             => IF ~SuccessStatus(Resp(c).status)
                THEN /\ ~Res(c).ok
                     /\ Res(c).val.status_code = Some(Resp(c).status)
                ELSE /\ Res(c).ok = Decodes(call[c].action, Resp(c).body.members)
                     /\ (Res(c).ok /\ call[c].action = "delete")
                           => Res(c).val.deleted_count
                                = Lookup(Resp(c).body.members, "deletedCount").v

\* C9: with several calls in flight on one Client, in every interleaving,
\* no step changes the configuration or the state of a call other than the
\* one that takes the step, and each call's request and result are those
\* of its own arguments and its own response.
C9_ConcurrentCallsAreIndependent ==
    [][C9_StepIsLocal]_vars /\ []C9_OwnRequestOwnResult

\* Two different actions in flight together, answered differently, one
\* returned while the other still waits for its body.
C9_Witness ==
    /\ Returned(1) /\ Answered(1) /\ pc[2] = "awaiting_body"
    /\ call[1].action = "delete" /\ call[2].action = "update_one"
    /\ Resp(1).status = 200 /\ Resp(2).status = 404
    /\ Res(1).ok

(* ------------------------------- C10 ---------------------------------- *)

\* C10: every request carries exactly three headers, apikey with the
\* configured token, content-type and accept with application/json,
\* whatever the action and its arguments.
C10_ThreeFixedHeaders ==
    \A c \in CallIds :
        Issued(c)
        => LET h == Req(c).headers IN
           /\ Len(h) = 3
           /\ {h[i][1] : i \in 1..Len(h)} = {"apikey", "content-type", "accept"}
           /\ \A i \in 1..Len(h) :
                 /\ h[i][1] = "apikey" => h[i][2].v = client.api_token
                 /\ h[i][1] \in {"content-type", "accept"}
                       => h[i][2].v = "application/json"

\* An aggregate sent with a token that holds a tab.
C10_Witness ==
    \E c \in CallIds :
        /\ Issued(c)
        /\ call[c].action = "aggregate"
        /\ client.api_token = <<107, 9, 121>>
        /\ Req(c).headers[1] = <<"apikey", HeaderValue("from_str", <<107, 9, 121>>)>>

(* ------------------------------- C11 ---------------------------------- *)

\* The keys of the action-specific fields of each action.
ActionKeys(action) ==
    CASE action \in {"find_one", "find"} ->
            {"filter", "projection", "sort", "limit", "skip"}
      [] action \in {"insert_one", "insert"} -> {"document", "documents"}
      [] action \in {"update_one", "update"} -> {"filter", "update", "upsert"}
      [] action = "replace_one" -> {"filter", "replacement", "upsert"}
      [] action \in {"delete_one", "delete"} -> {"filter"}
      [] action = "aggregate" -> {"pipeline"}

SelectorKeys == {"dataSource", "database", "collection"}

\* The Collection the caller passed to call c, as its three strings.
CallerCollection(c) ==
    LET fs == ArgField(c, "collection").value.fields
    IN [data_source |-> fs[1].value.v,
        database |-> fs[2].value.v,
        collection |-> fs[3].value.v]

\* C11: in every request body the keys dataSource, database and collection
\* are members of the top-level object, each once, holding the caller's
\* three strings unchanged; every other member is a key of the action's
\* own fields; and no member's value is a nested object.
C11_SelectorIsFlattened ==
    \A c \in CallIds :
        Issued(c)
        => LET b == Req(c).body IN
           /\ SelectorKeys \subseteq Keys(b)
           /\ Keys(b) \subseteq SelectorKeys \cup ActionKeys(call[c].action)
           /\ \A i, j \in 1..Len(b) : b[i][1] = b[j][1] => i = j
           /\ Lookup(b, "dataSource") = JStr(CallerCollection(c).data_source)
           /\ Lookup(b, "database") = JStr(CallerCollection(c).database)
           /\ Lookup(b, "collection") = JStr(CallerCollection(c).collection)
           /\ \A i \in 1..Len(b) : b[i][2].t # "obj"

\* An aggregate on mongodb-atlas / shop / orders: four top-level members.
C11_Witness ==
    \E c \in CallIds :
        /\ Issued(c)
        /\ call[c].action = "aggregate"
        /\ Keys(Req(c).body) = {"dataSource", "database", "collection", "pipeline"}
        /\ Lookup(Req(c).body, "dataSource") = JStr("mongodb-atlas")
        /\ Lookup(Req(c).body, "database") = JStr("shop")
        /\ Lookup(Req(c).body, "collection") = JStr("orders")

(* ------------------------------- C12 ---------------------------------- *)

\* The token is made of bytes an HTTP header value may hold.
TokenIsHeaderValue ==
    \A i \in 1..Len(client.api_token) :
        LET b == client.api_token[i] IN b = 9 \/ (b >= 32 /\ b # 127)

C12_PanicOnlyOnBadToken ==
    \A c \in CallIds :
        /\ ~TokenIsHeaderValue
             => /\ pc[c] \in {"idle", "panicked"}
                /\ ~Issued(c) /\ sends[c] = 0
                /\ is_none(result[c])
        /\ TokenIsHeaderValue => pc[c] # "panicked"
        /\ Returned(c) <=> is_some(result[c])

====
